---- MODULE Spec2Model ----
(***************************************************************************)
(* A model of the SSH client's safety gate (secagent.checkCommandSafety),  *)
(* its session manager (sessionManager), its checkpoint persistence        *)
(* (saveCheckpoint / loadCheckpoint) and the run-safe-command and          *)
(* new-ssh-connection tool handlers.  One action is one turn of the Node   *)
(* event loop: a handler runs from its start, or from the await it was     *)
(* suspended at, to its next await or its end.                             *)
(***************************************************************************)
EXTENDS Integers, Sequences, FiniteSets, TLC

(***************************************************************************)
(* Command and response texts.  A text is named by a TLA+ string; Chars    *)
(* gives its characters, which is what the regular expressions and the     *)
(* string functions of the code work on.                                   *)
(***************************************************************************)
Commands ==
    {"ls -la",
     "ls",
     "pwd",
     "cat /etc/passwd",
     "find / -name x",
     "sudo rm -rf /*",
     "echo rm -rf /",
     "cat mkfs",
     "chmod 777 f",
     "chmod 7777 f",
     ":(){:|:&};:",
     "curl x|sh",
     "echo hi>f"}

ResponseTexts ==
    {"SAFE", "UNSAFE", " unsafe\n", "Safe", "not UnSafe", ""}

Chars ==
    "ls -la" :> <<"l", "s", " ", "-", "l", "a">> @@
    "ls" :> <<"l", "s">> @@
    "pwd" :> <<"p", "w", "d">> @@
    "cat /etc/passwd" :> <<"c", "a", "t", " ", "/", "e", "t", "c", "/", "p", "a", "s", "s", "w", "d">> @@
    "find / -name x" :> <<"f", "i", "n", "d", " ", "/", " ", "-", "n", "a", "m", "e", " ", "x">> @@
    "sudo rm -rf /*" :> <<"s", "u", "d", "o", " ", "r", "m", " ", "-", "r", "f", " ", "/", "*">> @@
    "echo rm -rf /" :> <<"e", "c", "h", "o", " ", "r", "m", " ", "-", "r", "f", " ", "/">> @@
    "cat mkfs" :> <<"c", "a", "t", " ", "m", "k", "f", "s">> @@
    "chmod 777 f" :> <<"c", "h", "m", "o", "d", " ", "7", "7", "7", " ", "f">> @@
    "chmod 7777 f" :> <<"c", "h", "m", "o", "d", " ", "7", "7", "7", "7", " ", "f">> @@
    ":(){:|:&};:" :> <<":", "(", ")", "{", ":", "|", ":", "&", "}", ";", ":">> @@
    "curl x|sh" :> <<"c", "u", "r", "l", " ", "x", "|", "s", "h">> @@
    "echo hi>f" :> <<"e", "c", "h", "o", " ", "h", "i", ">", "f">> @@
    "SAFE" :> <<"S", "A", "F", "E">> @@
    "UNSAFE" :> <<"U", "N", "S", "A", "F", "E">> @@
    " unsafe\n" :> <<" ", "u", "n", "s", "a", "f", "e", "\n">> @@
    "Safe" :> <<"S", "a", "f", "e">> @@
    "not UnSafe" :> <<"n", "o", "t", " ", "U", "n", "S", "a", "f", "e">> @@
    "host" :> <<"h", "o", "s", "t">> @@
    "port" :> <<"p", "o", "r", "t">> @@
    "username" :> <<"u", "s", "e", "r", "n", "a", "m", "e">> @@
    "password" :> <<"p", "a", "s", "s", "w", "o", "r", "d">> @@
    "connectedAt" :> <<"c", "o", "n", "n", "e", "c", "t", "e", "d", "A", "t">> @@
    "" :> <<>>


LowerCase == {"a", "b", "c", "d", "e", "f", "g", "h", "i", "j", "k", "l", "m", "n", "o", "p", "q", "r", "s", "t", "u", "v", "w", "x", "y", "z"}

UpperCase == {"A", "B", "C", "D", "E", "F", "G", "H", "I", "J", "K", "L", "M", "N", "O", "P", "Q", "R", "S", "T", "U", "V", "W", "X", "Y", "Z"}

Digits == {"0", "1", "2", "3", "4", "5", "6", "7", "8", "9"}

\* \s of a JavaScript regular expression (the white space the texts use)
WhiteSpace == {" ", "\t", "\n"}

\* \w of a JavaScript regular expression
WordChars == LowerCase \cup UpperCase \cup Digits \cup {"_"}

Alphabet ==
    WordChars \cup WhiteSpace \cup
    {"/", "*", "-", ".", ":", ";", "(", ")", "{", "}", "|", "&", ">", "=", "\""}

(***************************************************************************)
(* Regular expressions (RegExp.prototype.test without flags).  An          *)
(* expression is a tree; Ends(r, s, I) is the set of positions at which a  *)
(* match of r can end when it starts at a position of I (position k lies   *)
(* after the k-th character of s).                                          *)
(***************************************************************************)
In(S) == [t |-> "set", s |-> S]
Ch(c) == In({c})
NotIn(S) == In(Alphabet \ S)
AnyChar == NotIn({"\n"})
Cat(rs) == [t |-> "cat", rs |-> rs]
Alt(rs) == [t |-> "alt", rs |-> rs]
Star(r) == [t |-> "star", r |-> r]
Plus(r) == Cat(<<r, Star(r)>>)
Opt(r) == Alt(<<r, Cat(<<>>)>>)
Lit(w) == Cat([k \in 1..Len(w) |-> Ch(w[k])])
WordBoundary == [t |-> "wb"]
Bol == [t |-> "bol"]
Eol == [t |-> "eol"]
Sp == In(WhiteSpace)
W == In(WordChars)

IsWordAt(s, k) == k >= 1 /\ k <= Len(s) /\ s[k] \in WordChars

RECURSIVE Ends(_, _, _)
RECURSIVE EndsCat(_, _, _, _)
RECURSIVE EndsStar(_, _, _)
Ends(r, s, I) ==
    CASE r.t = "set" -> {k + 1 : k \in {j \in I : j < Len(s) /\ s[j + 1] \in r.s}}
      [] r.t = "cat" -> EndsCat(r.rs, 1, s, I)
      [] r.t = "alt" -> UNION {Ends(r.rs[k], s, I) : k \in 1..Len(r.rs)}
      [] r.t = "star" -> EndsStar(r.r, s, I)
      [] r.t = "wb" -> {k \in I : IsWordAt(s, k) # IsWordAt(s, k + 1)}
      [] r.t = "bol" -> I \cap {0}
      [] r.t = "eol" -> I \cap {Len(s)}
EndsCat(rs, k, s, I) ==
    IF k > Len(rs) \/ I = {} THEN I ELSE EndsCat(rs, k + 1, s, Ends(rs[k], s, I))
EndsStar(r, s, I) ==
    LET J == I \cup Ends(r, s, I) IN IF J = I THEN I ELSE EndsStar(r, s, J)

\* pattern.test(text): a match may start anywhere
test(pattern, text) == Ends(pattern, text, 0..Len(text)) # {}

\* [\w\/._-]
PathChar == In(WordChars \cup {"/", ".", "_", "-"})
\* [a-zA-Z]
Letter == In(LowerCase \cup UpperCase)

unsafe_patterns ==
    << Cat(<<Lit(<<"r", "m">>), Plus(Sp),
             Star(Cat(<<Ch("-"), Plus(W), Plus(Sp)>>)), Ch("/")>>),
       Cat(<<Lit(<<"c", "h", "m", "o", "d">>), Plus(Sp),
             Lit(<<"7", "7", "7">>), WordBoundary>>),
       Lit(<<"m", "k", "f", "s">>),
       Cat(<<Lit(<<"d", "d">>), Plus(Sp), Lit(<<"i", "f", "=">>), Plus(AnyChar),
             Lit(<<"o", "f", "=", "/", "d", "e", "v">>)>>),
       \* /:(){:|:&};:/ is the alternation of :(){: (with an empty group and
       \* a literal brace) and :&};:
       Alt(<<Lit(<<":", "{", ":">>), Lit(<<":", "&", "}", ";", ":">>)>>),
       Cat(<<Lit(<<"w", "g", "e", "t">>), Plus(AnyChar), Ch("|"), Star(Sp),
             Lit(<<"s", "h">>)>>),
       Cat(<<Lit(<<"c", "u", "r", "l">>), Plus(AnyChar), Ch("|"), Star(Sp),
             Lit(<<"s", "h">>)>>),
       Cat(<<Lit(<<"s", "u", "d", "o">>), Plus(Sp), Lit(<<"r", "m">>), Plus(Sp),
             Lit(<<"-", "r", "f">>), Plus(Sp), Lit(<<"/", "*">>)>>) >>

safe_commands ==
    << Cat(<<Bol, Lit(<<"l", "s">>),
             Star(Cat(<<Plus(Sp), Ch("-"), Plus(Letter)>>)), Eol>>),
       Cat(<<Bol, Lit(<<"p", "w", "d">>), Eol>>),
       Cat(<<Bol, Lit(<<"e", "c", "h", "o">>), Plus(Sp),
             Star(NotIn({"|", ">", ";"})), Eol>>),
       Cat(<<Bol, Lit(<<"c", "d">>), Plus(Sp), Plus(PathChar), Eol>>),
       Cat(<<Bol, Lit(<<"c", "a", "t">>), Plus(Sp), Plus(PathChar), Eol>>),
       Cat(<<Bol, Lit(<<"m", "k", "d", "i", "r">>), Plus(Sp), Opt(Ch("-")),
             Opt(Ch("p")), Plus(Sp), Plus(PathChar), Eol>>),
       Cat(<<Bol, Lit(<<"c", "p">>), Plus(Sp), Opt(Ch("-")), Opt(Ch("r")),
             Plus(Sp), Plus(PathChar), Plus(Sp), Plus(PathChar), Eol>>),
       Cat(<<Bol, Lit(<<"d", "f">>), Plus(Sp), Ch("-"), Plus(Letter), Eol>>),
       Cat(<<Bol, Lit(<<"d", "u">>), Plus(Sp), Ch("-"), Plus(Letter), Eol>>),
       Cat(<<Bol, Lit(<<"p", "s">>), Plus(Sp),
             Plus(In({"a", "u", "x", "e", "f"})), Eol>>),
       Cat(<<Bol, Lit(<<"g", "r", "e", "p">>), Plus(Sp), Opt(Ch("-")),
             Star(Letter), Plus(Sp), Ch("\""), Plus(NotIn({"\""})), Ch("\""),
             Plus(Sp), Plus(PathChar), Eol>>),
       Cat(<<Bol, Lit(<<"p", "i", "n", "g">>), Plus(Sp), Lit(<<"-", "c">>),
             Plus(Sp), Plus(In(Digits)), Plus(Sp),
             Plus(In(WordChars \cup {".", "-"})), Eol>>),
       Cat(<<Bol, Lit(<<"u", "n", "a", "m", "e">>), Plus(Sp), Ch("-"),
             Plus(Letter), Eol>>),
       Cat(<<Bol, Lit(<<"w", "h", "o", "a", "m", "i">>), Eol>>),
       Cat(<<Bol, Lit(<<"d", "a", "t", "e">>), Eol>>),
       Cat(<<Bol, Lit(<<"a", "p", "t">>), Plus(Sp),
             Alt(<<Lit(<<"u", "p", "d", "a", "t", "e">>),
                   Lit(<<"l", "i", "s", "t">>),
                   Cat(<<Lit(<<"s", "e", "a", "r", "c", "h">>), Plus(Sp),
                         Plus(In(WordChars \cup {"-"}))>>)>>), Eol>>) >>

\* unsafe_patterns.some(pattern => pattern.test(command))
isObviouslyUnsafe(command) ==
    \E k \in 1..Len(unsafe_patterns) : test(unsafe_patterns[k], Chars[command])

\* safe_commands.some(pattern => pattern.test(command))
isStaticallySafe(command) ==
    \E k \in 1..Len(safe_commands) : test(safe_commands[k], Chars[command])

(***************************************************************************)
(* The classifier's reply: response.response.trim().toUpperCase()          *)
(* .includes('UNSAFE').                                                    *)
(***************************************************************************)
RECURSIVE trimStart(_)
trimStart(s) ==
    IF s # <<>> /\ Head(s) \in WhiteSpace THEN trimStart(Tail(s)) ELSE s

RECURSIVE trimEnd(_)
trimEnd(s) ==
    IF s # <<>> /\ s[Len(s)] \in WhiteSpace
    THEN trimEnd(SubSeq(s, 1, Len(s) - 1))
    ELSE s

trim(s) == trimEnd(trimStart(s))

UpperOf ==
    "a" :> "A" @@ "b" :> "B" @@ "c" :> "C" @@ "d" :> "D" @@ "e" :> "E" @@
    "f" :> "F" @@ "g" :> "G" @@ "h" :> "H" @@ "i" :> "I" @@ "j" :> "J" @@
    "k" :> "K" @@ "l" :> "L" @@ "m" :> "M" @@ "n" :> "N" @@ "o" :> "O" @@
    "p" :> "P" @@ "q" :> "Q" @@ "r" :> "R" @@ "s" :> "S" @@ "t" :> "T" @@
    "u" :> "U" @@ "v" :> "V" @@ "w" :> "W" @@ "x" :> "X" @@ "y" :> "Y" @@
    "z" :> "Z"

toUpperCase(s) ==
    [k \in 1..Len(s) |-> IF s[k] \in LowerCase THEN UpperOf[s[k]] ELSE s[k]]

includes(s, w) == test(Lit(w), s)

\* const isSafe = !response.response.trim().toUpperCase().includes('UNSAFE')
isSafeResponse(text) ==
    ~includes(toUpperCase(trim(Chars[text])), <<"U", "N", "S", "A", "F", "E">>)

(***************************************************************************)
(* The logger.  A log file is the set of its lines; of the lines the       *)
(* server writes, the model keeps those of new-ssh-connection, which are   *)
(* the ones written with the data of a request in scope.                   *)
(***************************************************************************)
LOG_FILE == "sshclient.log"

SENSITIVE_LOG_FILE == "sensitive.log"

LogFiles == {LOG_FILE, SENSITIVE_LOG_FILE}

toLowerCase(s) ==
    [k \in 1..Len(s) |->
        IF s[k] \in UpperCase
        THEN CHOOSE c \in LowerCase : UpperOf[c] = s[k]
        ELSE s[k]]

\* the test sanitizeData makes of a key
isSensitiveKey(key) ==
    \E w \in {<<"p", "a", "s", "s", "w", "o", "r", "d">>,
               <<"t", "o", "k", "e", "n">>,
               <<"s", "e", "c", "r", "e", "t">>,
               <<"k", "e", "y">>} :
        includes(toLowerCase(Chars[key]), w)

sanitizeData(data) ==
    [key \in DOMAIN data |->
        IF isSensitiveKey(key) THEN "********" ELSE data[key]]

logLine(message, data) == [message |-> message, data |-> data]

\* logSensitive(message, data): the sanitized data to the regular log, the
\* data as they are to the sensitive log
logSensitive(lg, message, data) ==
    [lg EXCEPT ![LOG_FILE] = @ \cup {logLine(message, sanitizeData(data))},
               ![SENSITIVE_LOG_FILE] = @ \cup {logLine(message, data)}]

\* logInfo and logError with a message that names the host
logMessage(lg, message, host) ==
    [lg EXCEPT ![LOG_FILE] = @ \cup {logLine(message, [host |-> host])}]

(***************************************************************************)
(* Bounds of the model.                                                    *)
(***************************************************************************)
\* the evaluations (and run-safe-command invocations) in flight or finished
MaxRuns == 2

Slots == 1..MaxRuns

(***************************************************************************)
(* Program constants.                                                      *)
(***************************************************************************)
MAX_RETRIES == 3

FALLBACK_MODELS == <<"llama2", "llama2-uncensored", "mistral", "gemma">>

\* what ollama.list() can name: nothing, only models outside the fallback
\* list (a tagged name is another string), or some of the fallback list
ModelListings ==
    {{}, {"llama2:latest", "phi3"}, {"mistral", "gemma"}, {"llama2", "gemma"}}

\* what ollama.list() names while run-safe-command is run
RunListings == {{}, {"mistral", "gemma"}}

\* the policy flags of secagentconfig.json
Configs ==
    [ENABLE_SECAGENT : BOOLEAN, USE_STATIC_CHECKS_ONLY : BOOLEAN,
     USE_LOCAL_LLM : BOOLEAN]

\* the configuration the constructor falls back to when the file cannot be
\* read or parsed; the two flags it does not set are undefined (not true)
DefaultConfig ==
    [ENABLE_SECAGENT |-> FALSE, USE_STATIC_CHECKS_ONLY |-> FALSE,
     USE_LOCAL_LLM |-> FALSE]

\* a configuration file that asks for the static checks only
StaticConfigs ==
    {[ENABLE_SECAGENT |-> TRUE, USE_STATIC_CHECKS_ONLY |-> TRUE,
      USE_LOCAL_LLM |-> FALSE]}

\* a configuration file that asks for the classifier
LlmConfigs ==
    {[ENABLE_SECAGENT |-> TRUE, USE_STATIC_CHECKS_ONLY |-> FALSE,
      USE_LOCAL_LLM |-> TRUE]}

\* how one classifier request settles: a reply with a text, a reply without
\* a response text, a transport error, or the 5 s timeout winning the race
Outcomes ==
    [kind : {"response"}, text : ResponseTexts]
        \cup [kind : {"malformed", "error", "timeout"}, text : {""}]

\* the port and the user of the requests
DefaultPort == 22

Username == "root"

\* the passwords given to new-ssh-connection
Passwords == {"pw1", "pw2"}

SpecPasswords == {"pw1"}

\* the hosts new-ssh-connection is asked to connect to
Hosts == {"h1", "h2"}

\* the exit codes a remote command ends with
ExitCodes == {0, 1}

\* the commands run-safe-command is invoked with: one that only an allow
\* pattern matches, one that a deny pattern matches
RunCommands == {"ls", "sudo rm -rf /*"}

\* the new-ssh-connection invocations of a behaviour
MaxConnects == 2

\* the writeFile calls in flight at one time
MaxWrites == 2

\* the same, and the invocations of new-ssh-connection, in the
\* specifications that look at run-safe-command
SpecWrites == 1

SpecConnects == 1

\* the host they connect to
SpecHosts == {"h1"}

\* the records of a history built by direct calls, and their commands
MaxHistory == 2

SessionCommands == {"ls", "ls -la"}

\* the times the process is started
MaxLives == 2

ConnectIds == 1..MaxConnects

\* the ways a classifier request settles during run-safe-command
RunOutcomes ==
    [kind : {"response"}, text : {"SAFE", "UNSAFE"}]
        \cup [kind : {"malformed", "error", "timeout"}, text : {""}]

VARIABLES
    secagentconfig,    \* secagent.secagentconfig
    availableModels,   \* secagent.availableModels
    listing,           \* initializeAsync: "none", "pending" or "settled"
    gate,              \* per slot, the call of checkCommandSafety it holds
    isConnected,       \* index.ts: let isConnected
    conn,              \* the shared ssh2 Client and its listeners
    connects,          \* the invocations of new-ssh-connection
    connectionInfo,    \* sessionManager.connectionInfo, <<>> when undefined
    commands,          \* sessionManager.commands
    run,               \* the invocations of run-safe-command
    files,             \* the checkpoint file and the command history file
    writes,            \* the fs.promises.writeFile calls in flight
    process,           \* the Node process: alive, shutting down, starts
    dispatched,        \* history: the startup commands and those dispatched
    logs,              \* per log file, the lines that carry request data
    replies            \* the last reply of each tool without parameters

gateVars == <<secagentconfig, availableModels, listing, gate>>

connVars == <<isConnected, conn, connects>>

sessionVars == <<connectionInfo, commands, dispatched>>

fileVars == <<files, writes>>

toolVars == <<logs, replies>>

vars == <<gateVars, connVars, sessionVars, run, fileVars, process, toolVars>>

(***************************************************************************)
(* sessionManager.                                                         *)
(***************************************************************************)
\* addCommand with unshift in place of push
addCommand_unshift(cmds, command) ==
    <<[command |-> command, result |-> <<>>]>> \o cmds

\* this.commands.push({command, executedAt})
addCommand(cmds, command) == Append(cmds, [command |-> command, result |-> <<>>])

\* findLastIndex in place of findIndex: the scan from the back
RECURSIVE findLastIndexFrom(_, _, _)
findLastIndexFrom(cmds, command, k) ==
    IF k = 0 THEN 0
    ELSE IF cmds[k].command = command THEN k
    ELSE findLastIndexFrom(cmds, command, k - 1)

findIndex_fromBack(cmds, command) == findLastIndexFrom(cmds, command, Len(cmds))

\* this.commands.findIndex(cmd => cmd.command === command), 0 for -1
RECURSIVE findIndexFrom(_, _, _)
findIndexFrom(cmds, command, k) ==
    IF k > Len(cmds) THEN 0
    ELSE IF cmds[k].command = command THEN k
    ELSE findIndexFrom(cmds, command, k + 1)

findIndex(cmds, command) == findIndexFrom(cmds, command, 1)

setCommandResult(cmds, command, result) ==
    LET cmdIndex == findIndex(cmds, command) IN
    IF cmdIndex # 0 THEN [cmds EXCEPT ![cmdIndex].result = <<result>>] ELSE cmds

getCheckpoint(info, cmds) == [connectionInfo |-> info, commands |-> cmds]

\* restoreFromCheckpoint: a field is replaced when the checkpoint has it
restoreFromCheckpoint(info, cmds, checkpoint) ==
    [connectionInfo |->
        IF checkpoint.connectionInfo # <<>> THEN checkpoint.connectionInfo ELSE info,
     commands |-> checkpoint.commands]

(***************************************************************************)
(* Files.  A JSON text is a sequence of tokens; a file holds the tokens    *)
(* written so far.                                                         *)
(***************************************************************************)
CHECKPOINT_PATH == "session_checkpoint.json"

COMMAND_HISTORY_PATH == "command_history.json"

Paths == {CHECKPOINT_PATH, COMMAND_HISTORY_PATH}

Tok(t, v) == [t |-> t, v |-> v]

\* JSON.stringify that writes null for a result that is undefined
jsonCommand_nullResult(cmd) ==
    [command |-> cmd.command,
     result |-> IF cmd.result = <<>> THEN "null" ELSE cmd.result[1]]

\* the JSON object of a value: a property whose value is undefined is left
\* out
jsonCommand(cmd) ==
    IF cmd.result = <<>>
    THEN [command |-> cmd.command]
    ELSE [command |-> cmd.command, result |-> cmd.result[1]]

\* the value JSON.parse gives for the object: a property that is not there
\* reads as undefined
commandOf(object) ==
    [command |-> object.command,
     result |-> IF "result" \in DOMAIN object THEN <<object.result>> ELSE <<>>]

records(cmds) == [k \in 1..Len(cmds) |-> Tok("record", jsonCommand(cmds[k]))]

\* JSON.stringify(checkpoint, null, 2): an undefined connectionInfo is left out
stringifyCheckpoint(checkpoint) ==
    <<Tok("{", <<>>)>>
        \o (IF checkpoint.connectionInfo # <<>>
            THEN <<Tok("connectionInfo", checkpoint.connectionInfo[1])>>
            ELSE <<>>)
        \o <<Tok("commands[", <<>>)>>
        \o records(checkpoint.commands)
        \o <<Tok("]", <<>>), Tok("}", <<>>)>>

\* JSON.stringify(session.getCommandHistory(), null, 2)
stringifyHistory(cmds) ==
    <<Tok("[", <<>>)>> \o records(cmds) \o <<Tok("]", <<>>)>>

\* whether JSON.parse accepts the text of a checkpoint file
parses(text) ==
    LET n == Len(text)
        h == IF n >= 2 /\ text[2].t = "connectionInfo" THEN 3 ELSE 2
    IN  /\ n >= h + 2
        /\ text[1].t = "{"
        /\ text[h].t = "commands["
        /\ \A k \in (h + 1)..(n - 2) : text[k].t = "record"
        /\ text[n - 1].t = "]"
        /\ text[n].t = "}"

\* JSON.parse(data) as SessionCheckpoint, for a text that parses
parse(text) ==
    LET n == Len(text)
        h == IF text[2].t = "connectionInfo" THEN 3 ELSE 2
    IN  [connectionInfo |-> IF h = 3 THEN <<text[2].v>> ELSE <<>>,
         commands |-> [k \in 1..(n - h - 2) |-> commandOf(text[h + k].v)]]

NoFile == [exists |-> FALSE, data |-> <<>>]

\* the file after writeFile has opened it with flag 'w'
opened(file) == [exists |-> TRUE, data |-> <<>>]

\* the file after the data has been written from offset 0 through the
\* descriptor of one writeFile call
written(file, data) ==
    [exists |-> TRUE,
     data |-> data \o SubSeq(file.data, Len(data) + 1, Len(file.data))]

\* saveCheckpoint(CHECKPOINT_PATH, checkpoint) up to its await
saveCheckpoint(checkpoint, origin) ==
    [path |-> CHECKPOINT_PATH, value |-> checkpoint,
     data |-> stringifyCheckpoint(checkpoint),
     stage |-> "called", origin |-> origin]

\* fs.promises.writeFile(COMMAND_HISTORY_PATH, ...) of run-safe-command
saveHistory(cmds) ==
    [path |-> COMMAND_HISTORY_PATH, value |-> cmds,
     data |-> stringifyHistory(cmds),
     stage |-> "called", origin |-> "dispatch"]

\* whether loadCheckpoint returns a checkpoint for the file
checkpointLoads(file) == file.exists /\ parses(file.data)

\* the startup without the load of the checkpoint file
startupSession_fresh(file) == [connectionInfo |-> <<>>, commands |-> <<>>]

\* the session the module starts with: restored from the checkpoint file
\* when it exists and loads, empty otherwise
startupSession(file) ==
    IF checkpointLoads(file)
    THEN restoreFromCheckpoint(<<>>, <<>>, parse(file.data))
    ELSE [connectionInfo |-> <<>>, commands |-> <<>>]

texts(cmds) == [k \in 1..Len(cmds) |-> cmds[k].command]

IdleGate ==
    [pc |-> "idle", command |-> "", attempt |-> 0, model |-> "",
     verdict |-> "none", requests |-> 0, exhausted |-> FALSE]

\* the constructor of secagent, given whether the configuration file loads
secagentInit(loads, configs) ==
    /\ secagentconfig \in (IF loads THEN configs ELSE {DefaultConfig})
    /\ listing = (IF loads THEN "pending" ELSE "none")
    /\ availableModels = {}

\* initializeAsync after its await: the listing, or nothing when it failed
initializeAsync(ok, names) ==
    /\ listing = "pending"
    /\ listing' = "settled"
    /\ availableModels' = (IF ok THEN names ELSE {})

RECURSIVE firstAvailable(_, _)
firstAvailable(models, k) ==
    IF k > Len(FALLBACK_MODELS) THEN "llama2"
    ELSE IF FALLBACK_MODELS[k] \in models THEN FALLBACK_MODELS[k]
    ELSE firstAvailable(models, k + 1)

getAvailableModel(models) == firstAvailable(models, 1)

\* the static check answering SAFE when no allow pattern matches
staticVerdict_allowByAbsence(command) == "SAFE"

staticVerdict(command) == IF isStaticallySafe(command) THEN "SAFE" ELSE "UNSAFE"

returned(g, verdict) == [g EXCEPT !.pc = "returned", !.verdict = verdict]

\* the body of the retry loop up to its await: choose a model, issue the
\* request and race it against the timeout
issueRequest(g, attempt, models) ==
    [g EXCEPT !.pc = "generate", !.attempt = attempt,
              !.model = getAvailableModel(models), !.requests = @ + 1]

\* evaluate with the static-only return placed before the deny check
evaluate_staticBeforeDeny(config, models, command) ==
    LET g == [IdleGate EXCEPT !.command = command] IN
    IF config.ENABLE_SECAGENT # TRUE THEN returned(g, "SAFE")
    ELSE IF config.USE_STATIC_CHECKS_ONLY = TRUE
         THEN returned(g, staticVerdict(command))
    ELSE IF isObviouslyUnsafe(command) THEN returned(g, "UNSAFE")
    ELSE IF config.USE_LOCAL_LLM # TRUE
         THEN returned(g, staticVerdict(command))
    ELSE IF Cardinality(models) = 0
         THEN returned(g, staticVerdict(command))
    ELSE issueRequest(g, 1, models)

\* evaluate with the deny check placed before the test of ENABLE_SECAGENT
evaluate_denyBeforeEnabled(config, models, command) ==
    LET g == [IdleGate EXCEPT !.command = command] IN
    IF isObviouslyUnsafe(command) THEN returned(g, "UNSAFE")
    ELSE IF config.ENABLE_SECAGENT # TRUE THEN returned(g, "SAFE")
    ELSE IF config.USE_STATIC_CHECKS_ONLY = TRUE
         THEN returned(g, staticVerdict(command))
    ELSE IF config.USE_LOCAL_LLM # TRUE
         THEN returned(g, staticVerdict(command))
    ELSE IF Cardinality(models) = 0
         THEN returned(g, staticVerdict(command))
    ELSE issueRequest(g, 1, models)

\* evaluate without the test for an empty availableModels
evaluate_noModelTest(config, models, command) ==
    LET g == [IdleGate EXCEPT !.command = command] IN
    IF config.ENABLE_SECAGENT # TRUE THEN returned(g, "SAFE")
    ELSE IF isObviouslyUnsafe(command) THEN returned(g, "UNSAFE")
    ELSE IF config.USE_STATIC_CHECKS_ONLY = TRUE
         THEN returned(g, staticVerdict(command))
    ELSE IF config.USE_LOCAL_LLM # TRUE
         THEN returned(g, staticVerdict(command))
    ELSE issueRequest(g, 1, models)

\* checkCommandSafety from its call to its first await or its return, for
\* the configuration and the available models it reads
evaluate(config, models, command) ==
    LET g == [IdleGate EXCEPT !.command = command] IN
    IF config.ENABLE_SECAGENT # TRUE THEN returned(g, "SAFE")
    ELSE IF isObviouslyUnsafe(command) THEN returned(g, "UNSAFE")
    ELSE IF config.USE_STATIC_CHECKS_ONLY = TRUE
         THEN returned(g, staticVerdict(command))
    ELSE IF config.USE_LOCAL_LLM # TRUE
         THEN returned(g, staticVerdict(command))
    ELSE IF Cardinality(models) = 0
         THEN returned(g, staticVerdict(command))
    ELSE issueRequest(g, 1, models)

checkCommandSafety(command) == evaluate(secagentconfig, availableModels, command)

\* the catch block without the bound on the attempts
catchAttempt_noLimit(g) == [g EXCEPT !.pc = "delay"]

\* the catch block throwing the last error once the attempts are used up
catchAttempt_rethrows(g) ==
    IF g.attempt < MAX_RETRIES
    THEN [g EXCEPT !.pc = "delay"]
    ELSE [g EXCEPT !.pc = "threw", !.exhausted = TRUE]

\* the catch block of one attempt: wait before the next attempt, or, after
\* the last one, leave the loop and fall back to the static check
catchAttempt(g) ==
    IF g.attempt < MAX_RETRIES
    THEN [g EXCEPT !.pc = "delay"]
    ELSE [returned(g, staticVerdict(g.command)) EXCEPT !.exhausted = TRUE]

\* checkCommandSafety resumed when the race of an attempt settles
raceSettled(g, outcome) ==
    IF outcome.kind = "response"
    THEN returned(g, IF isSafeResponse(outcome.text) THEN "SAFE" ELSE "UNSAFE")
    ELSE catchAttempt(g)

\* checkCommandSafety resumed when the delay between two attempts is over
delayElapsed(g) == issueRequest(g, g.attempt + 1, availableModels)

(***************************************************************************)
(* The run-safe-command handler after the verdict.                         *)
(***************************************************************************)
\* timer: the timeout set before conn.exec is armed and the promise it
\* rejects is pending (a timer that fires on a settled promise does nothing)
\* rec: the position of the record the invocation appended, 0 when none
IdleRun ==
    [pc |-> "idle", command |-> "", outcome |-> "none", timer |-> FALSE,
     execd |-> FALSE, retries |-> 3, rec |-> 0]

IdleConnect ==
    [pc |-> "idle", host |-> "", password |-> "", outcome |-> "none",
     timer |-> FALSE]

\* a promise that every call of resolve or reject settles anew
settle_lastCallWins(r, outcome) == [r EXCEPT !.outcome = outcome]

\* resolve or reject of a promise: only the first call settles it
settle(r, outcome) == IF r.outcome = "none" THEN [r EXCEPT !.outcome = outcome] ELSE r

\* the outcomes delivered by reject
Rejections == {"timeout", "exec_failed", "unexpected", "failed"}

\* afterGate without the test of isSafe
afterGate_ignoresVerdict(r, g) ==
    IF g.pc = "threw"
    THEN IF r.retries = 1
         THEN [settle(r, "unexpected") EXCEPT !.pc = "done", !.retries = 0]
         ELSE [r EXCEPT !.pc = "retry", !.retries = @ - 1]
    ELSE IF conn.state # "ready"
    THEN [settle(r, "unexpected") EXCEPT !.pc = "done"]
    ELSE [r EXCEPT !.pc = "exec", !.timer = TRUE, !.execd = TRUE]

\* afterGate with a conn.exec that takes the command whatever the state of
\* the client
afterGate_execUnconnected(r, g) ==
    IF g.pc = "threw"
    THEN IF r.retries = 1
         THEN [settle(r, "unexpected") EXCEPT !.pc = "done", !.retries = 0]
         ELSE [r EXCEPT !.pc = "retry", !.retries = @ - 1]
    ELSE IF g.verdict # "SAFE"
    THEN [settle(r, "unsafe") EXCEPT !.pc = "done"]
    ELSE [r EXCEPT !.pc = "exec", !.timer = TRUE, !.execd = TRUE]

\* afterGate with a throw in place of the resolve of the unsafe branch: the
\* outer catch rejects
afterGate_throwsOnUnsafe(r, g) ==
    IF g.pc = "threw"
    THEN IF r.retries = 1
         THEN [settle(r, "unexpected") EXCEPT !.pc = "done", !.retries = 0]
         ELSE [r EXCEPT !.pc = "retry", !.retries = @ - 1]
    ELSE IF g.verdict # "SAFE"
    THEN [settle(r, "unexpected") EXCEPT !.pc = "done"]
    ELSE IF conn.state # "ready"
    THEN [settle(r, "unexpected") EXCEPT !.pc = "done"]
    ELSE [r EXCEPT !.pc = "exec", !.timer = TRUE, !.execd = TRUE]

\* run-safe-command resumed after `await secAgent.checkCommandSafety`: the
\* retry loop, the test of isSafe, setTimeout and conn.exec, which throws
\* when the client has no writable socket
afterGate(r, g) ==
    IF g.pc = "threw"
    THEN IF r.retries = 1
         THEN [settle(r, "unexpected") EXCEPT !.pc = "done", !.retries = 0]
         ELSE [r EXCEPT !.pc = "retry", !.retries = @ - 1]
    ELSE IF g.verdict # "SAFE"
    THEN [settle(r, "unsafe") EXCEPT !.pc = "done"]
    ELSE IF conn.state # "ready"
    THEN [settle(r, "unexpected") EXCEPT !.pc = "done"]
    ELSE [r EXCEPT !.pc = "exec", !.timer = TRUE, !.execd = TRUE]

\* the handler from the call of checkCommandSafety (which left g) on
resumeRun(r, g) ==
    IF g.pc \in {"returned", "threw"} THEN afterGate(r, g) ELSE [r EXCEPT !.pc = "gate"]

NextSlot(s) == run[s].pc = "idle" /\ \A t \in Slots : t < s => run[t].pc # "idle"

NextConnect(i) ==
    connects[i].pc = "idle" /\ \A j \in ConnectIds : j < i => connects[j].pc # "idle"

(***************************************************************************)
(* Actions of the safety gate.                                             *)
(***************************************************************************)
ListModelsSettled(listings) ==
    /\ process.alive
    /\ \E ok \in BOOLEAN, names \in listings : initializeAsync(ok, names)
    /\ UNCHANGED <<secagentconfig, gate, connVars, sessionVars, run, fileVars, process>>
    /\ UNCHANGED toolVars

\* a call of checkCommandSafety by a caller that only awaits the verdict
Evaluate(s, command) ==
    /\ process.alive
    /\ run[s].pc = "idle"
    /\ gate[s].pc \in {"idle", "returned"}
    /\ gate' = [gate EXCEPT ![s] = checkCommandSafety(command)]
    /\ UNCHANGED <<secagentconfig, availableModels, listing, connVars,
                   sessionVars, run, fileVars, process>>
    /\ UNCHANGED toolVars

\* the race of one attempt settles; the caller resumes when the call returns
GenerateSettled(s, outcome) ==
    /\ process.alive
    /\ gate[s].pc = "generate"
    /\ LET g == raceSettled(gate[s], outcome) IN
        /\ gate' = [gate EXCEPT ![s] = g]
        /\ run' = IF run[s].pc = "gate"
                  THEN [run EXCEPT ![s] = resumeRun(run[s], g)]
                  ELSE run
    /\ UNCHANGED <<secagentconfig, availableModels, listing, connVars,
                   sessionVars, fileVars, process>>
    /\ UNCHANGED toolVars

\* a one-second delay is over: the next attempt of checkCommandSafety, or
\* the next call of it by the retry loop of run-safe-command
RetryDelayElapsed(s) ==
    /\ process.alive
    /\ gate[s].pc = "delay" \/ run[s].pc = "retry"
    /\ LET g == IF run[s].pc = "retry"
                THEN checkCommandSafety(run[s].command)
                ELSE delayElapsed(gate[s])
       IN /\ gate' = [gate EXCEPT ![s] = g]
          /\ run' = IF run[s].pc = "retry"
                    THEN [run EXCEPT ![s] = resumeRun(run[s], g)]
                    ELSE run
    /\ UNCHANGED <<secagentconfig, availableModels, listing, connVars,
                   sessionVars, fileVars, process>>
    /\ UNCHANGED toolVars

(***************************************************************************)
(* The process ends (process.exit, or a crash): what it held in memory and *)
(* what it had in flight is gone; the files stay as they are.              *)
(***************************************************************************)
lostRun(r) ==
    IF r.pc \in {"gate", "retry", "exec", "stream"}
    THEN [r EXCEPT !.pc = "lost", !.timer = FALSE]
    ELSE [r EXCEPT !.timer = FALSE]

lostGate(g) == IF g.pc \in {"generate", "delay"} THEN [g EXCEPT !.pc = "lost"] ELSE g

lostConnect(c) ==
    IF c.pc = "pending"
    THEN [c EXCEPT !.pc = "lost", !.timer = FALSE]
    ELSE [c EXCEPT !.timer = FALSE]

\* fault: the process has had a promise rejected with no handler
terminate(fault) ==
    /\ process' = [process EXCEPT !.alive = FALSE, !.shutdown = "none",
                                  !.fault = fault, !.restored = FALSE,
                                  !.established = FALSE]
    /\ writes' = <<>>
    /\ run' = [s \in Slots |-> lostRun(run[s])]
    /\ gate' = [s \in Slots |-> lostGate(gate[s])]
    /\ connects' = [i \in ConnectIds |-> lostConnect(connects[i])]
    /\ conn' = [state |-> "idle", listeners |-> <<>>]
    /\ isConnected' = FALSE
    /\ connectionInfo' = <<>>
    /\ commands' = <<>>
    /\ dispatched' = <<>>
    /\ availableModels' = {}
    /\ listing' = (IF listing = "none" THEN "none" ELSE "pending")
    /\ UNCHANGED secagentconfig

exit == terminate(process.fault)

(***************************************************************************)
(* new-ssh-connection and the events of the shared client.                 *)
(***************************************************************************)
\* a ConnectionInfo
attemptInfo(host) ==
    [host |-> host, port |-> DefaultPort, username |-> Username,
     connectedAt |-> "now"]

\* the data of logSensitive("SSH connection attempt", {host, port, username})
attemptData(host) == [host |-> host, port |-> DefaultPort, username |-> Username]

\* the handler: arm the timeout, add the three listeners, call conn.connect,
\* which ends a connection the client still holds and connects after its close
NewSshConnection(i, host, password) ==
    /\ process.alive
    /\ NextConnect(i)
    /\ logs' = logSensitive(logs, "SSH connection attempt", attemptData(host))
    /\ connects' = [connects EXCEPT ![i] =
            [pc |-> "pending", host |-> host, password |-> password,
             outcome |-> "none", timer |-> TRUE]]
    /\ conn' = [state |-> IF conn.state = "idle" THEN "connecting" ELSE "ending",
                listeners |-> Append(conn.listeners, i)]
    /\ UNCHANGED <<gateVars, isConnected, sessionVars, run, files, writes,
                   process, replies>>

\* setConnectionInfo given the password with the rest of the request
infoOf_withPassword(i) ==
    <<[host |-> connects[i].host, port |-> DefaultPort, username |-> Username,
       password |-> connects[i].password, connectedAt |-> "now"]>>

\* the argument of session.setConnectionInfo in the 'ready' listener
infoOf(i) == <<attemptInfo(connects[i].host)>>

listening(i) == \E k \in 1..Len(conn.listeners) : conn.listeners[k] = i

\* every listener of an event logs a message with the host of its request
RECURSIVE logListeners(_, _, _)
logListeners(lg, message, listeners) ==
    IF listeners = <<>> THEN lg
    ELSE logListeners(logMessage(lg, message, connects[Head(listeners)].host),
                      message, Tail(listeners))

\* 'ready': every registered listener runs, in the order of registration
ConnReady(cap) ==
    /\ process.alive
    /\ conn.state = "connecting"
    /\ Len(writes) + Len(conn.listeners) <= cap
    /\ conn' = [conn EXCEPT !.state = "ready"]
    /\ isConnected' = TRUE
    /\ connectionInfo' = infoOf(conn.listeners[Len(conn.listeners)])
    /\ writes' = writes \o
            [k \in 1..Len(conn.listeners) |->
                saveCheckpoint(getCheckpoint(infoOf(conn.listeners[k]), commands),
                               "ready")]
    /\ connects' = [i \in ConnectIds |->
            IF listening(i)
            THEN [settle(connects[i], "established") EXCEPT !.pc = "settled",
                                                            !.timer = FALSE]
            ELSE connects[i]]
    /\ process' = [process EXCEPT !.established = TRUE]
    /\ UNCHANGED <<gateVars, commands, dispatched, run, files, toolVars>>

\* 'error' and the 'close' that follows it
ConnError ==
    /\ process.alive
    /\ conn.state \in {"connecting", "ready"}
    /\ conn' = [conn EXCEPT !.state = "idle"]
    /\ isConnected' = FALSE
    /\ connects' = [i \in ConnectIds |->
            IF listening(i)
            THEN [settle(connects[i], "failed") EXCEPT !.pc = "settled",
                                                       !.timer = FALSE]
            ELSE connects[i]]
    /\ logs' = logListeners(logs, "SSH connection error to", conn.listeners)
    /\ UNCHANGED <<gateVars, sessionVars, run, files, writes, process, replies>>

\* 'close': of an established connection, or of the one connect() ended
ConnClose ==
    /\ process.alive
    /\ conn.state \in {"ready", "ending"}
    /\ conn' = [conn EXCEPT !.state = IF conn.state = "ending" THEN "connecting" ELSE "idle"]
    /\ isConnected' = FALSE
    /\ logs' = logListeners(logs, "SSH connection closed", conn.listeners)
    /\ UNCHANGED <<gateVars, connects, sessionVars, run, files, writes, process,
                   replies>>

\* the 120 s timer of one invocation
ConnectTimeout(i) ==
    /\ process.alive
    /\ connects[i].timer
    /\ connects' = [connects EXCEPT ![i] =
            [settle(connects[i], "timeout") EXCEPT !.pc = "settled", !.timer = FALSE]]
    /\ UNCHANGED <<gateVars, isConnected, conn, sessionVars, run, fileVars, process>>
    /\ UNCHANGED toolVars

(***************************************************************************)
(* run-safe-command.                                                       *)
(***************************************************************************)
\* run-safe-command without the test of isConnected
RunSafeCommand_noConnectedTest(s, command, cap) ==
    /\ process.alive
    /\ NextSlot(s)
    /\ Len(writes) < cap
    /\ commands' = addCommand(commands, command)
    /\ dispatched' = Append(dispatched, command)
    /\ writes' = Append(writes, saveHistory(commands'))
    /\ LET g == checkCommandSafety(command) IN
        /\ gate' = [gate EXCEPT ![s] = g]
        /\ run' = [run EXCEPT ![s] =
                resumeRun([IdleRun EXCEPT !.command = command,
                                         !.rec = Len(commands')], g)]
    /\ UNCHANGED <<secagentconfig, availableModels, listing, connVars,
                   connectionInfo, files, process>>
    /\ UNCHANGED toolVars

\* run-safe-command with session.addCommand left out of the start of the
\* handler: nothing is in the history when the safety check is called
RunSafeCommand_gateBeforeRecord(s, command, cap) ==
    /\ process.alive
    /\ NextSlot(s)
    /\ IF ~isConnected
       THEN /\ run' = [run EXCEPT ![s] =
                    [IdleRun EXCEPT !.pc = "done", !.command = command,
                                    !.outcome = "no_connection"]]
            /\ UNCHANGED <<gate, commands, dispatched, writes>>
       ELSE /\ Len(writes) < cap
            /\ writes' = Append(writes, saveHistory(commands))
            /\ LET g == checkCommandSafety(command) IN
                /\ gate' = [gate EXCEPT ![s] = g]
                /\ run' = [run EXCEPT ![s] =
                        resumeRun([IdleRun EXCEPT !.command = command], g)]
            /\ UNCHANGED <<commands, dispatched>>
    /\ UNCHANGED <<secagentconfig, availableModels, listing, connVars,
                   connectionInfo, files, process>>
    /\ UNCHANGED toolVars

\* the handler from its start to its first await or its end
RunSafeCommand(s, command, cap) ==
    /\ process.alive
    /\ NextSlot(s)
    /\ IF ~isConnected
       THEN /\ run' = [run EXCEPT ![s] =
                    [IdleRun EXCEPT !.pc = "done", !.command = command,
                                    !.outcome = "no_connection"]]
            /\ UNCHANGED <<gate, commands, dispatched, writes>>
       ELSE /\ Len(writes) < cap
            /\ commands' = addCommand(commands, command)
            /\ dispatched' = Append(dispatched, command)
            /\ writes' = Append(writes, saveHistory(commands'))
            /\ LET g == checkCommandSafety(command) IN
                /\ gate' = [gate EXCEPT ![s] = g]
                /\ run' = [run EXCEPT ![s] =
                        resumeRun([IdleRun EXCEPT !.command = command,
                                         !.rec = Len(commands')], g)]
    /\ UNCHANGED <<secagentconfig, availableModels, listing, connVars,
                   connectionInfo, files, process>>
    /\ UNCHANGED toolVars

\* the callback of conn.exec: an error, or the stream
ExecCallback(s, err) ==
    /\ process.alive
    /\ run[s].pc = "exec"
    /\ run' = [run EXCEPT ![s] =
            IF err
            THEN [settle(run[s], "exec_failed") EXCEPT !.pc = "done", !.timer = FALSE]
            ELSE [run[s] EXCEPT !.pc = "stream"]]
    /\ UNCHANGED <<gateVars, connVars, sessionVars, fileVars, process>>
    /\ UNCHANGED toolVars

\* the 'close' listener of the stream
StreamClose(s, code, cap) ==
    /\ process.alive
    /\ run[s].pc = "stream"
    /\ Len(writes) < cap
    /\ commands' = setCommandResult(commands, run[s].command, [exitCode |-> code])
    /\ writes' = Append(writes,
            saveCheckpoint(getCheckpoint(connectionInfo, commands'), "close"))
    /\ run' = [run EXCEPT ![s] =
            [settle(run[s], "completed") EXCEPT !.pc = "done", !.timer = FALSE]]
    /\ UNCHANGED <<gateVars, connVars, connectionInfo, dispatched, files, process>>
    /\ UNCHANGED toolVars

\* the timer callback attaching a result that says the command timed out
ExecTimeout_recordsResult(s) ==
    /\ process.alive
    /\ run[s].timer
    /\ run' = [run EXCEPT ![s] = [settle(run[s], "timeout") EXCEPT !.timer = FALSE]]
    /\ commands' = setCommandResult(commands, run[s].command,
                                    [exitCode |-> "timeout"])
    /\ UNCHANGED <<gateVars, connVars, connectionInfo, dispatched, fileVars,
                   process>>
    /\ UNCHANGED toolVars

\* the 120 s timer set before conn.exec
ExecTimeout(s) ==
    /\ process.alive
    /\ run[s].timer
    /\ run' = [run EXCEPT ![s] = [settle(run[s], "timeout") EXCEPT !.timer = FALSE]]
    /\ UNCHANGED <<gateVars, connVars, sessionVars, fileVars, process>>
    /\ UNCHANGED toolVars

(***************************************************************************)
(* The tools without parameters.  Each handler returns its content at      *)
(* once; the model keeps the last reply of each.                           *)
(***************************************************************************)
NoReplies == [resume |-> <<>>, history |-> <<>>]

\* resume-session without the test of checkpoint.connectionInfo: reading
\* .host of undefined throws
resumeSession_noTest(checkpoint) ==
    [text |-> IF checkpoint.connectionInfo = <<>>
              THEN "TypeError" ELSE "Session information recovered",
     host |-> IF checkpoint.connectionInfo = <<>>
              THEN "" ELSE checkpoint.connectionInfo[1].host,
     executed |-> Len(checkpoint.commands)]

\* the content resume-session returns for session.getCheckpoint()
resumeSession(checkpoint) ==
    IF checkpoint.connectionInfo = <<>>
    THEN [text |-> "No previous session to resume", host |-> "", executed |-> 0]
    ELSE [text |-> "Session information recovered",
          host |-> checkpoint.connectionInfo[1].host,
          executed |-> Len(checkpoint.commands)]

\* the content show-command-history returns for session.getCommandHistory()
showCommandHistory(history) ==
    IF Len(history) = 0
    THEN [text |-> "No commands have been executed yet", entries |-> <<>>]
    ELSE [text |-> "Command History",
          entries |-> [k \in 1..Len(history) |->
                [command |-> history[k].command,
                 status |-> IF history[k].result # <<>>
                            THEN "Completed"
                            ELSE "Running or interrupted"]]]

ResumeSession ==
    /\ process.alive
    /\ replies' = [replies EXCEPT
            !.resume = <<resumeSession(getCheckpoint(connectionInfo, commands))>>]
    /\ UNCHANGED <<gateVars, connVars, sessionVars, run, fileVars, process, logs>>

ShowCommandHistory ==
    /\ process.alive
    /\ replies' = [replies EXCEPT !.history = <<showCommandHistory(commands)>>]
    /\ UNCHANGED <<gateVars, connVars, sessionVars, run, fileVars, process, logs>>

(***************************************************************************)
(* The session manager and saveCheckpoint called directly, in any order,   *)
(* as a program that imports session.ts may call them.                     *)
(***************************************************************************)
SetConnectionInfo(info) ==
    /\ process.alive
    /\ connectionInfo' = <<info>>
    /\ UNCHANGED <<gateVars, connVars, commands, dispatched, run, fileVars,
                   process, toolVars>>

AddCommand(command) ==
    /\ process.alive
    /\ Len(commands) < MaxHistory
    /\ commands' = addCommand(commands, command)
    /\ dispatched' = Append(dispatched, command)
    /\ UNCHANGED <<gateVars, connVars, connectionInfo, run, fileVars, process,
                   toolVars>>

SetCommandResult(command, result) ==
    /\ process.alive
    /\ commands' = setCommandResult(commands, command, result)
    /\ UNCHANGED <<gateVars, connVars, connectionInfo, dispatched, run, fileVars,
                   process, toolVars>>

SaveCheckpoint(cap) ==
    /\ process.alive
    /\ Len(writes) < cap
    /\ writes' = Append(writes,
            saveCheckpoint(getCheckpoint(connectionInfo, commands), "call"))
    /\ UNCHANGED <<gateVars, connVars, sessionVars, run, files, logs, process,
                   toolVars>>

\* session.restoreFromCheckpoint(loadCheckpoint(CHECKPOINT_PATH))
RestoreSession ==
    /\ process.alive
    /\ checkpointLoads(files[CHECKPOINT_PATH])
    /\ LET session == restoreFromCheckpoint(connectionInfo, commands,
                            parse(files[CHECKPOINT_PATH].data)) IN
        /\ connectionInfo' = session.connectionInfo
        /\ commands' = session.commands
        /\ dispatched' = texts(session.commands)
    /\ UNCHANGED <<gateVars, connVars, run, fileVars, process, toolVars>>

(***************************************************************************)
(* Persistence and the life of the process.                                *)
(***************************************************************************)
remove(q, k) == SubSeq(q, 1, k - 1) \o SubSeq(q, k + 1, Len(q))

\* the setInterval callback
Tick(cap) ==
    /\ process.alive
    /\ isConnected
    /\ Len(writes) < cap
    /\ writes' = Append(writes,
            saveCheckpoint(getCheckpoint(connectionInfo, commands), "tick"))
    /\ UNCHANGED <<gateVars, connVars, sessionVars, run, files, process>>
    /\ UNCHANGED toolVars

\* writeFile opens its file: the file is created or truncated
WriteOpen(k) ==
    /\ process.alive
    /\ k \in 1..Len(writes)
    /\ writes[k].stage = "called"
    /\ files' = [files EXCEPT ![writes[k].path] = opened(@)]
    /\ writes' = [writes EXCEPT ![k].stage = "opened"]
    /\ UNCHANGED <<gateVars, connVars, sessionVars, run, process>>
    /\ UNCHANGED toolVars

\* writeFile writes its data and is done; the SIGINT handler, when it
\* awaited this write, goes on to conn.end() and process.exit(0)
WriteData(k) ==
    /\ process.alive
    /\ k \in 1..Len(writes)
    /\ writes[k].stage = "opened"
    /\ files' = [files EXCEPT ![writes[k].path] = written(@, writes[k].data)]
    /\ IF writes[k].origin = "sigint"
       THEN exit
       ELSE /\ writes' = remove(writes, k)
            /\ UNCHANGED <<gateVars, connVars, sessionVars, run, process>>
    /\ UNCHANGED toolVars

\* writeFile fails, before or after it opened the file, and saveCheckpoint
\* throws the error again.  The SIGINT handler catches it and goes on to
\* process.exit(0); the callers with a catch log it; the 'ready' listener
\* has dropped the promise, so the rejection has no handler and Node (a
\* version that has import.meta.dirname, started as `node build/index.js`)
\* ends the process with the error
WriteFails(k) ==
    /\ process.alive
    /\ k \in 1..Len(writes)
    /\ UNCHANGED files
    /\ IF writes[k].origin = "sigint"
       THEN exit
       ELSE IF writes[k].origin = "ready"
       THEN terminate(TRUE)
       ELSE /\ writes' = remove(writes, k)
            /\ UNCHANGED <<gateVars, connVars, sessionVars, run, process>>
    /\ UNCHANGED toolVars

\* the SIGINT handler up to its await, or to process.exit(0)
Sigint(cap) ==
    /\ process.alive
    /\ process.shutdown = "none"
    /\ IF isConnected
       THEN /\ Len(writes) < cap
            /\ writes' = Append(writes,
                    saveCheckpoint(getCheckpoint(connectionInfo, commands), "sigint"))
            /\ process' = [process EXCEPT !.shutdown = "saving"]
            /\ UNCHANGED <<gateVars, connVars, sessionVars, run, files>>
       ELSE exit /\ UNCHANGED files
    /\ UNCHANGED toolVars

\* the process is killed
Crash ==
    /\ process.alive
    /\ exit
    /\ UNCHANGED files
    /\ UNCHANGED toolVars

\* the process is started: the module's top level up to main()
Start(lives) ==
    /\ ~process.alive
    /\ process.lives < lives
    /\ process' = [process EXCEPT !.alive = TRUE, !.lives = @ + 1,
                                  !.fault = FALSE,
                                  !.restored = checkpointLoads(files[CHECKPOINT_PATH])]
    /\ LET session == startupSession(files[CHECKPOINT_PATH]) IN
        /\ connectionInfo' = session.connectionInfo
        /\ commands' = session.commands
        /\ dispatched' = texts(session.commands)
    /\ replies' = NoReplies
    /\ UNCHANGED <<gateVars, connVars, run, fileVars, logs>>

(***************************************************************************)
(* The specifications.                                                     *)
(***************************************************************************)
\* the state after the module's top level has run for the first time, with
\* no checkpoint file yet
InitWith(configs) ==
    /\ \E loads \in BOOLEAN : secagentInit(loads, configs)
    /\ gate = [s \in Slots |-> IdleGate]
    /\ isConnected = FALSE
    /\ conn = [state |-> "idle", listeners |-> <<>>]
    /\ connects = [i \in ConnectIds |-> IdleConnect]
    /\ connectionInfo = <<>>
    /\ commands = <<>>
    /\ dispatched = <<>>
    /\ run = [s \in Slots |-> IdleRun]
    /\ files = [path \in Paths |-> NoFile]
    /\ writes = <<>>
    /\ process = [alive |-> TRUE, shutdown |-> "none", lives |-> 1,
                  fault |-> FALSE, restored |-> FALSE, established |-> FALSE]
    /\ logs = [file \in LogFiles |-> {}]
    /\ replies = NoReplies

\* the steps of the system, for at most `nconn` invocations of
\* new-ssh-connection with hosts of `hosts`, `nruns` invocations of
\* run-safe-command with commands of `cmds`, and `cap` writeFile calls in
\* flight at one time
Connection(nconn, hosts, passwords, cap) ==
    \/ \E i \in 1..nconn, host \in hosts, password \in passwords :
            NewSshConnection(i, host, password)
    \/ ConnReady(cap)
    \/ ConnError
    \/ ConnClose
    \/ \E i \in 1..nconn : ConnectTimeout(i)

Execution(nruns, cmds, cap) ==
    \/ \E s \in 1..nruns, command \in cmds : RunSafeCommand(s, command, cap)
    \/ \E s \in 1..nruns, err \in BOOLEAN : ExecCallback(s, err)
    \/ \E s \in 1..nruns, code \in ExitCodes : StreamClose(s, code, cap)
    \/ \E s \in 1..nruns : ExecTimeout(s)

FileSystem(cap) ==
    \/ \E k \in 1..cap : WriteOpen(k)
    \/ \E k \in 1..cap : WriteData(k)
    \/ \E k \in 1..cap : WriteFails(k)

Persistence(cap) == Tick(cap) \/ FileSystem(cap)

Classifier(nruns) ==
    \/ ListModelsSettled(RunListings)
    \/ \E s \in 1..nruns, outcome \in RunOutcomes : GenerateSettled(s, outcome)
    \/ \E s \in 1..nruns : RetryDelayElapsed(s)

\* the system on a configuration that uses the static checks only (or, when
\* the configuration file does not load, with the agent disabled)
Init == InitWith(StaticConfigs)

Next ==
    \/ Connection(SpecConnects, SpecHosts, SpecPasswords, SpecWrites)
    \/ Execution(MaxRuns, RunCommands, SpecWrites)
    \/ Persistence(SpecWrites)
    \/ Sigint(SpecWrites)
    \/ Crash
    \/ Start(MaxLives)

Spec == Init /\ [][Next]_vars

\* the system on a configuration that asks for the classifier, until the
\* process ends
LlmInit == InitWith(LlmConfigs)

LlmNext ==
    \/ Classifier(MaxRuns)
    \/ Connection(SpecConnects, SpecHosts, SpecPasswords, SpecWrites)
    \/ Execution(MaxRuns, RunCommands, SpecWrites)
    \/ Persistence(SpecWrites)
    \/ Sigint(SpecWrites)
    \/ Crash

LlmSpec == LlmInit /\ [][LlmNext]_vars

\* the system under a client that awaits the outcome of each invocation of
\* run-safe-command before it makes the next
Awaited == \A t \in Slots : run[t].pc = "idle" \/ run[t].outcome # "none"

AwaitedRunSafeCommand(s, command, cap) ==
    /\ Awaited
    /\ RunSafeCommand(s, command, cap)

AwaitedExecution(nruns, cmds, cap) ==
    \/ \E s \in 1..nruns, command \in cmds : AwaitedRunSafeCommand(s, command, cap)
    \/ \E s \in 1..nruns, err \in BOOLEAN : ExecCallback(s, err)
    \/ \E s \in 1..nruns, code \in ExitCodes : StreamClose(s, code, cap)
    \/ \E s \in 1..nruns : ExecTimeout(s)

AwaitedNext ==
    \/ Connection(SpecConnects, SpecHosts, SpecPasswords, SpecWrites)
    \/ AwaitedExecution(MaxRuns, RunCommands, SpecWrites)
    \/ Persistence(SpecWrites)

AwaitedSpec == Init /\ [][AwaitedNext]_vars

\* the system with several saves in flight, on a disk that does not fail
OverlapNext ==
    \/ Connection(SpecConnects, SpecHosts, SpecPasswords, MaxWrites)
    \/ Execution(MaxRuns, RunCommands, MaxWrites)
    \/ Tick(MaxWrites)
    \/ \E k \in 1..MaxWrites : WriteOpen(k)
    \/ \E k \in 1..MaxWrites : WriteData(k)

OverlapSpec == Init /\ [][OverlapNext]_vars

\* the session over the lives of the process: connections with every
\* password, and the tools without parameters
LoginNext ==
    \/ Connection(MaxConnects, SpecHosts, Passwords, MaxWrites)
    \/ Persistence(MaxWrites)
    \/ ResumeSession
    \/ ShowCommandHistory
    \/ Sigint(MaxWrites)
    \/ Crash
    \/ Start(MaxLives)

LoginSpec == Init /\ [][LoginNext]_vars

\* the session manager and the checkpoint file under direct calls
SessionNext ==
    \/ \E host \in SpecHosts : SetConnectionInfo(attemptInfo(host))
    \/ \E command \in SessionCommands : AddCommand(command)
    \/ \E command \in SessionCommands \cup {"pwd"}, code \in ExitCodes :
            SetCommandResult(command, [exitCode |-> code])
    \/ SaveCheckpoint(SpecWrites)
    \/ RestoreSession
    \/ FileSystem(SpecWrites)

SessionSpec == Init /\ [][SessionNext]_vars

\* the safety gate alone, called for every command, on every configuration
GateInit == InitWith(Configs)

GateNext ==
    \/ ListModelsSettled(ModelListings)
    \/ \E command \in Commands : Evaluate(1, command)
    \/ \E outcome \in Outcomes : GenerateSettled(1, outcome)
    \/ RetryDelayElapsed(1)

GateSpec == GateInit /\ [][GateNext]_vars

(***************************************************************************)
(* Properties of the safety gate.                                          *)
(***************************************************************************)
Called(s) == gate[s].pc # "idle"

StaticOnly(config) == [config EXCEPT !.USE_STATIC_CHECKS_ONLY = TRUE]

\* C2: with ENABLE_SECAGENT true, a call of checkCommandSafety for a command
\* that matches a deny pattern has returned UNSAFE and has issued no
\* classifier request, whatever the other flags, the available models and
\* the classifier would answer.
C2_DenyPatternIsUnsafe ==
    \A s \in Slots :
        (Called(s) /\ secagentconfig.ENABLE_SECAGENT
                   /\ isObviouslyUnsafe(gate[s].command))
            => /\ gate[s].pc = "returned"
               /\ gate[s].verdict = "UNSAFE"
               /\ gate[s].requests = 0

\* a deny-pattern command was evaluated on a configuration that would
\* otherwise use the classifier, with a fallback model available
C2_Witness ==
    \E s \in Slots :
        /\ gate[s].pc = "returned"
        /\ isObviouslyUnsafe(gate[s].command)
        /\ isStaticallySafe(gate[s].command)
        /\ secagentconfig.ENABLE_SECAGENT
        /\ secagentconfig.USE_LOCAL_LLM
        /\ ~secagentconfig.USE_STATIC_CHECKS_ONLY
        /\ "mistral" \in availableModels

\* C3: with ENABLE_SECAGENT false, a call of checkCommandSafety has returned
\* SAFE for every command, deny-pattern commands and commands without an
\* allow pattern included, and has issued no classifier request.
C3_DisabledIsSafe ==
    \A s \in Slots :
        (Called(s) /\ ~secagentconfig.ENABLE_SECAGENT)
            => /\ gate[s].pc = "returned"
               /\ gate[s].verdict = "SAFE"
               /\ gate[s].requests = 0

\* a deny-pattern command that no allow pattern matches was evaluated with
\* the agent disabled by its configuration file
C3_Witness ==
    \E s \in Slots :
        /\ gate[s].pc = "returned"
        /\ ~secagentconfig.ENABLE_SECAGENT
        /\ listing # "none"
        /\ isObviouslyUnsafe(gate[s].command)
        /\ ~isStaticallySafe(gate[s].command)

InStaticOnlyMode ==
    secagentconfig.ENABLE_SECAGENT /\ secagentconfig.USE_STATIC_CHECKS_ONLY

\* C4 as stated: in static-only mode the verdict is SAFE iff the command
\* matches an allow pattern.
C4_SafeIffAllow ==
    \A s \in Slots :
        (Called(s) /\ InStaticOnlyMode)
            => /\ gate[s].pc = "returned"
               /\ (gate[s].verdict = "SAFE") <=> isStaticallySafe(gate[s].command)

\* C4 (amended): in static-only mode the verdict is SAFE iff the command
\* matches an allow pattern and matches no deny pattern.
C4_SafeIffAllowAndNotDeny ==
    \A s \in Slots :
        (Called(s) /\ InStaticOnlyMode)
            => /\ gate[s].pc = "returned"
               /\ gate[s].requests = 0
               /\ (gate[s].verdict = "SAFE")
                    <=> (isStaticallySafe(gate[s].command)
                            /\ ~isObviouslyUnsafe(gate[s].command))

\* static-only mode has evaluated a command that matches an allow pattern
\* and a deny pattern
C4_Witness ==
    \E s \in Slots :
        /\ InStaticOnlyMode
        /\ gate[s].pc = "returned"
        /\ isStaticallySafe(gate[s].command)
        /\ isObviouslyUnsafe(gate[s].command)

ClassifierConfigured ==
    /\ secagentconfig.ENABLE_SECAGENT
    /\ secagentconfig.USE_LOCAL_LLM
    /\ ~secagentconfig.USE_STATIC_CHECKS_ONLY

\* a step that calls checkCommandSafety in slot s
CallStep(s) ==
    /\ gate[s].pc \in {"idle", "returned"}
    /\ gate'[s].pc # "idle"
    /\ gate'[s] # gate[s]

\* C6: a call of checkCommandSafety made while availableModels is empty
\* (nothing listed, listing failed, or listing not settled yet), on a
\* configuration that asks for the classifier, returns at once the verdict
\* the same call gives in static-only mode and issues no classifier request.
C6_NoModelsIsStaticOnly ==
    [][\A s \in Slots :
        (CallStep(s) /\ ClassifierConfigured /\ availableModels = {})
            => /\ gate'[s].pc = "returned"
               /\ gate'[s].requests = 0
               /\ gate'[s].verdict =
                    evaluate(StaticOnly(secagentconfig), availableModels,
                             gate'[s].command).verdict
               /\ gate'[s].verdict =
                    (IF isStaticallySafe(gate'[s].command)
                        /\ ~isObviouslyUnsafe(gate'[s].command)
                     THEN "SAFE" ELSE "UNSAFE")]_vars

\* the listing settled with no model and a command without a deny pattern
\* was then evaluated on a configuration that asks for the classifier
C6_Witness ==
    \E s \in Slots :
        /\ ClassifierConfigured
        /\ listing = "settled"
        /\ availableModels = {}
        /\ gate[s].pc = "returned"
        /\ gate[s].requests = 0
        /\ ~isObviouslyUnsafe(gate[s].command)

(***************************************************************************)
(* Properties of run-safe-command, the session and the checkpoint file.    *)
(***************************************************************************)
\* C1: an invocation of run-safe-command has handed its command to
\* conn.exec only if its own call of checkCommandSafety has returned SAFE for
\* that command, and an invocation whose call returned UNSAFE has not.
C1_ExecOnlyAfterSafe ==
    \A s \in Slots :
        /\ run[s].execd =>
            /\ gate[s].pc = "returned"
            /\ gate[s].verdict = "SAFE"
            /\ gate[s].command = run[s].command
        /\ (run[s].pc # "idle" /\ gate[s].verdict # "SAFE") =>
            /\ ~run[s].execd
            /\ run[s].pc \notin {"exec", "stream"}

\* one invocation was executed on the classifier's SAFE given at a second
\* attempt, another was rejected on its UNSAFE
C1_Witness ==
    \E s, t \in Slots :
        /\ run[s].execd
        /\ gate[s].requests = 2
        /\ ~gate[s].exhausted
        /\ gate[t].verdict = "UNSAFE"
        /\ gate[t].requests = 1
        /\ run[t].outcome = "unsafe"

\* C5: checkCommandSafety never throws: when its three attempts have failed
\* it has returned the verdict of static-only evaluation of the command; the
\* retry loop of run-safe-command never catches anything, and the outcome
\* "An unexpected error occurred" is never due to the safety check.
C5_ExhaustionFallsBackToStatic ==
    \A s \in Slots :
        /\ gate[s].pc # "threw"
        /\ run[s].pc # "retry"
        /\ run[s].retries = 3
        /\ gate[s].exhausted =>
            /\ gate[s].pc = "returned"
            /\ gate[s].requests = MAX_RETRIES
            /\ gate[s].verdict =
                evaluate(StaticOnly(secagentconfig), availableModels,
                         gate[s].command).verdict
        /\ run[s].outcome = "unexpected" => gate[s].verdict = "SAFE"

\* three attempts failed for a command that the static check allows, and
\* the command was executed
C5_Witness ==
    \E s \in Slots :
        /\ gate[s].exhausted
        /\ gate[s].requests = 3
        /\ run[s].execd
        /\ run[s].outcome = "completed"

\* a step in which run-safe-command is invoked
Invoked(s) == run[s].pc = "idle" /\ run'[s].pc # "idle"

\* C7: an invocation of run-safe-command made while isConnected is false
\* returns "No active SSH connection" at once: checkCommandSafety is not
\* called, conn.exec is not called, and the command history, the files and
\* the writes in flight are as before.
C7_NoConnectionRejects ==
    [][\A s \in Slots :
        (Invoked(s) /\ ~isConnected)
            => /\ run'[s].outcome = "no_connection"
               /\ run'[s].pc = "done"
               /\ ~run'[s].execd
               /\ gate'[s] = IdleGate
               /\ commands' = commands
               /\ connectionInfo' = connectionInfo
               /\ files' = files
               /\ writes' = writes]_vars

\* an invocation was rejected for lack of a connection after an earlier one
\* had been dispatched and a checkpoint written
C7_Witness ==
    \E s \in Slots :
        /\ run[s].outcome = "no_connection"
        /\ Len(commands) = 1
        /\ files[CHECKPOINT_PATH].exists
        /\ files[CHECKPOINT_PATH].data # <<>>

\* C8: the command texts of the history are, in order, the commands the
\* session started with followed by the commands dispatched since, whatever
\* the order in which the runs complete.
C8_HistoryIsDispatchOrder ==
    process.alive => texts(commands) = dispatched

\* two different commands are in the history and the one dispatched second
\* completed while the first was still running
C8_Witness ==
    /\ process.alive
    /\ Len(commands) = 2
    /\ commands[1].command # commands[2].command
    /\ commands[1].result = <<>>
    /\ commands[2].result # <<>>
    /\ run[1].pc = "stream"
    /\ run[2].outcome = "completed"

\* C9: a record that has a result keeps that result as long as the process
\* lives.
C9_ResultIsImmutable ==
    [][(process.alive /\ process'.alive)
        => \A k \in 1..Len(commands) :
            (commands[k].result # <<>> /\ k <= Len(commands'))
                => commands'[k].result = commands[k].result]_vars

\* C10: the checkpoint file is absent or holds a complete checkpoint that
\* loadCheckpoint accepts.
C10_CheckpointFileLoads ==
    files[CHECKPOINT_PATH].exists => parses(files[CHECKPOINT_PATH].data)

\* C11: every outcome of new-ssh-connection and of run-safe-command is
\* delivered to the caller as the value its handler returns (resolve), never
\* as a rejection of the handler's promise.
C11_OutcomesAreResults ==
    /\ \A s \in Slots : run[s].outcome \notin Rejections
    /\ \A i \in ConnectIds : connects[i].outcome \notin Rejections

\* C12: no failure of a write of the checkpoint file or of the command
\* history file is left without a handler: none ends the process or takes
\* the outcome of an invocation in flight with it.
C12_WriteFailuresAreHandled == ~process.fault

\* a step in which the execution timeout of invocation s is delivered
TimedOut(s) ==
    /\ process.alive
    /\ run[s].outcome = "none"
    /\ run'[s].outcome = "timeout"

\* C13 as stated: when the timeout of a run is delivered to the caller, the
\* record that the run appended has no result.
C13_TimedOutRecordHasNoResult ==
    [][\A s \in Slots :
        TimedOut(s) => commands'[run[s].rec].result = <<>>]_vars

\* C13, amended: the timeout is delivered as a rejection and attaches no
\* result, the history is as before; the record that the run appended has
\* no result unless another run of the same command text has completed.
C13_TimeoutAttachesNothing ==
    [][\A s \in Slots :
        TimedOut(s) =>
            /\ run'[s].outcome \in Rejections
            /\ commands' = commands
            /\ commands'[run[s].rec].command = run[s].command
            /\ commands'[run[s].rec].result # <<>> =>
                \E t \in Slots \ {s} :
                    /\ run[t].command = run[s].command
                    /\ run[t].execd
                    /\ run[t].pc = "done"]_vars

\* a run has timed out with its stream still open and its record without a
\* result
C13_Witness ==
    \E s \in Slots :
        /\ process.alive
        /\ run[s].outcome = "timeout"
        /\ run[s].pc = "stream"
        /\ commands[run[s].rec].command = run[s].command
        /\ commands[run[s].rec].result = <<>>

\* a step in which the stream of invocation s closes after the timeout of
\* s has been delivered
ClosedLate(s) ==
    /\ process.alive
    /\ run[s].outcome = "timeout"
    /\ run[s].pc = "stream"
    /\ run'[s].pc = "done"

\* C14: the delivery of the execution timeout leaves the remote execution
\* and the connection as they are; when the stream closes afterwards, the
\* result is attached to the first record with the command's text and a save
\* of the checkpoint is started, and the outcome of the invocation stays the
\* timeout.
C14_LateCompletionIsRecorded ==
    [][\A s \in Slots :
        /\ TimedOut(s) =>
            /\ run'[s].pc = run[s].pc
            /\ conn' = conn
        /\ ClosedLate(s) =>
            /\ run'[s].outcome = "timeout"
            /\ findIndex(commands, run[s].command) # 0
            /\ \E code \in ExitCodes :
                commands'[findIndex(commands, run[s].command)].result
                    = <<[exitCode |-> code]>>
            /\ Len(writes') = Len(writes) + 1
            /\ writes'[Len(writes')] =
                saveCheckpoint(getCheckpoint(connectionInfo', commands'), "close")
       ]_vars

\* the stream of the only invocation made closed after its timeout: its
\* record has the result and the save of the checkpoint is in flight
C14_Witness ==
    \E s \in Slots :
        /\ process.alive
        /\ run[s].outcome = "timeout"
        /\ run[s].pc = "done"
        /\ \A t \in Slots \ {s} : run[t].pc = "idle"
        /\ commands[run[s].rec].result # <<>>
        /\ \E k \in 1..Len(writes) : writes[k].origin = "close"

\* the properties of a stored ConnectionInfo
InfoFields == {"host", "port", "username", "connectedAt"}

\* no text of the object is a password (the port is a number)
NoPassword(object) ==
    \A key \in DOMAIN object \ {"port"} : object[key] \notin Passwords

\* the tokens of a file text that hold a ConnectionInfo
InfoTokens(text) == {k \in 1..Len(text) : text[k].t = "connectionInfo"}

StoresNoPassword(text) ==
    \A k \in InfoTokens(text) :
        DOMAIN text[k].v = InfoFields /\ NoPassword(text[k].v)

\* C15: whatever the passwords given to new-ssh-connection, the
\* ConnectionInfo of the session has exactly the properties host, port,
\* username and connectedAt, and no password is a value of it, of the
\* checkpoint file, of the command history file, of a write in flight or of
\* a line of a log file.
C15_PasswordIsNotPersisted ==
    /\ connectionInfo # <<>> =>
        /\ DOMAIN connectionInfo[1] = InfoFields
        /\ NoPassword(connectionInfo[1])
    /\ \A path \in Paths : StoresNoPassword(files[path].data)
    /\ \A k \in 1..Len(writes) : StoresNoPassword(writes[k].data)
    /\ \A file \in LogFiles : \A line \in logs[file] : NoPassword(line.data)

\* two connections to one host were established with different passwords,
\* and the checkpoint file and the log files have been written
C15_Witness ==
    \E i, j \in ConnectIds :
        /\ connects[i].outcome = "established"
        /\ connects[j].outcome = "established"
        /\ connects[i].host = connects[j].host
        /\ connects[i].password # connects[j].password
        /\ connectionInfo # <<>>
        /\ InfoTokens(files[CHECKPOINT_PATH].data) # {}
        /\ \A file \in LogFiles : logs[file] # {}

\* a step in which the save of writes[k] completes, nothing having been
\* written to the checkpoint file since this save opened it
Saved(k) ==
    /\ process.alive
    /\ writes[k].path = CHECKPOINT_PATH
    /\ writes[k].stage = "opened"
    /\ files[CHECKPOINT_PATH].data = <<>>
    /\ files'[CHECKPOINT_PATH] # files[CHECKPOINT_PATH]
    /\ writes' = remove(writes, k)

\* C16: when a save of a checkpoint completes with no other save having
\* written in between, loadCheckpoint accepts the file and returns a
\* checkpoint equal to the one saved.
C16_LoadReturnsWhatWasSaved ==
    [][\A k \in 1..Len(writes) :
        Saved(k) =>
            /\ checkpointLoads(files'[CHECKPOINT_PATH])
            /\ parse(files'[CHECKPOINT_PATH].data) = writes[k].value]_vars

\* the checkpoint of a session with no connectionInfo and no commands has
\* been saved and loads as such; the session has moved on since
C16_Witness ==
    /\ writes = <<>>
    /\ checkpointLoads(files[CHECKPOINT_PATH])
    /\ parse(files[CHECKPOINT_PATH].data) = getCheckpoint(<<>>, <<>>)
    /\ connectionInfo # <<>>
    /\ Len(commands) = MaxHistory
    /\ \E k \in 1..Len(commands) : commands[k].result # <<>>

\* the content resume-session returns when the session has no connectionInfo
NothingToResume ==
    [text |-> "No previous session to resume", host |-> "", executed |-> 0]

\* C17: when the process found no checkpoint file at startup, or found one
\* that did not load, and no connection has become ready in this process,
\* resume-session returns the "No previous session to resume" content as
\* its result.
C17_NothingToResumeIsAResult ==
    [][(ResumeSession /\ ~process.restored /\ ~process.established)
            => replies'.resume = <<NothingToResume>>]_vars

\* in a second life, over a checkpoint file a crash left truncated
C17_Witness ==
    /\ process.alive
    /\ process.lives = MaxLives
    /\ files[CHECKPOINT_PATH].exists
    /\ ~checkpointLoads(files[CHECKPOINT_PATH])
    /\ ~process.restored
    /\ ~process.established
    /\ replies.resume = <<NothingToResume>>

\* invocation s has its record in the history
Recorded(s) ==
    /\ run'[s].rec \in 1..Len(commands')
    /\ commands'[run'[s].rec].command = run'[s].command

\* C18: the steps of one invocation of run-safe-command are ordered: its
\* record is in the history whenever the safety check is called or resumed
\* for it, conn.exec is called for it only on a verdict of SAFE that the
\* check has returned, and a result is attached to the history only by the
\* stream of an invocation for which conn.exec has been called.
C18_LifecycleIsOrdered ==
    [][process'.alive =>
        /\ \A s \in Slots :
            /\ gate'[s] # gate[s] => Recorded(s)
            /\ (~run[s].execd /\ run'[s].execd) =>
                    /\ Recorded(s)
                    /\ gate'[s].pc = "returned"
                    /\ gate'[s].verdict = "SAFE"
        /\ \A k \in 1..Len(commands) :
            (k <= Len(commands') /\ commands'[k].result # commands[k].result) =>
                \E s \in Slots :
                    /\ run[s].pc = "stream"
                    /\ run[s].execd
                    /\ run[s].rec \in k..Len(commands)
                    /\ run[s].command = commands[k].command
                    /\ run'[s].pc = "done"]_vars

\* an invocation that the classifier was asked about has completed and its
\* record has a result
C18_Witness ==
    \E s \in Slots :
        /\ process.alive
        /\ gate[s].requests > 0
        /\ gate[s].verdict = "SAFE"
        /\ run[s].execd
        /\ run[s].outcome = "completed"
        /\ commands[run[s].rec].result # <<>>

\* the positions of the records of cmds whose text is command and that no
\* record with that text precedes
FirstMatch(cmds, command) ==
    {k \in 1..Len(cmds) :
        /\ cmds[k].command = command
        /\ \A j \in 1..(k - 1) : cmds[j].command # command}

\* C19: setCommandResult(command, result) attaches result to the first
\* record from the front whose text is command, with or without a result
\* already, and changes no other record; when no record has that text the
\* history is unchanged; in both cases nothing else changes and the process
\* goes on.
C19_ResultGoesToFirstMatch ==
    [][\A command \in SessionCommands \cup {"pwd"}, code \in ExitCodes :
        SetCommandResult(command, [exitCode |-> code]) =>
            /\ Len(commands') = Len(commands)
            /\ \A k \in 1..Len(commands) :
                commands'[k] =
                    IF k \in FirstMatch(commands, command)
                    THEN [command |-> command, result |-> <<[exitCode |-> code]>>]
                    ELSE commands[k]
            /\ FirstMatch(commands, command) = {} => commands' = commands
            /\ process' = process]_vars

\* two records with one text, the first with a result and the second
\* without
C19_Witness ==
    /\ Len(commands) = MaxHistory
    /\ commands[1].command = commands[MaxHistory].command
    /\ commands[1].result # <<>>
    /\ commands[MaxHistory].result = <<>>

\* a step in which the stream of invocation s closes and s completes, every
\* other invocation having run to its end
CompletesAlone(s) ==
    /\ process.alive
    /\ run[s].pc = "stream"
    /\ run'[s].pc = "done"
    /\ run'[s].outcome = "completed"
    /\ \A t \in Slots \ {s} : run[t].pc \in {"idle", "done"}

\* C20: with each invocation awaited before the next is made, the result of
\* an invocation that completes is attached to the record that this
\* invocation appended, also when an earlier record has the same text.
C20_ResultGoesToOwnRecord ==
    [][\A s \in Slots :
        CompletesAlone(s) =>
            /\ commands'[run[s].rec].result # <<>>
            /\ \A k \in 1..Len(commands) :
                k # run[s].rec => commands'[k] = commands[k]]_vars

\* a step in which checkCommandSafety returns UNSAFE to invocation s
GateRejects(s) ==
    /\ process.alive
    /\ process'.alive
    /\ run'[s].pc # "idle"
    /\ run[s].outcome = "none"
    /\ gate'[s] # gate[s]
    /\ gate'[s].pc = "returned"
    /\ gate'[s].verdict = "UNSAFE"

C22_AtMostThreeRequests ==
    [][\A s \in Slots :
        /\ gate'[s].requests <= MAX_RETRIES
        /\ run'[s].retries = IdleRun.retries
        /\ gate'[s].requests # gate[s].requests =>
            \/ /\ run[s].pc = "idle"
               /\ gate'[s].requests = 1
            \/ /\ gate[s].pc = "delay"
               /\ gate'[s].requests = gate[s].requests + 1
               /\ gate'[s].attempt = gate'[s].requests
        /\ (gate[s].pc # "delay" /\ gate'[s].pc = "delay") =>
            \E outcome \in RunOutcomes :
                outcome.kind # "response" /\ GenerateSettled(s, outcome)
        /\ \A outcome \in RunOutcomes :
            (outcome.kind = "response" /\ GenerateSettled(s, outcome)) =>
                /\ gate'[s].pc = "returned"
                /\ gate'[s].requests = gate[s].requests]_vars

\* one invocation has used all its attempts, another has stopped at the
\* response to its second request
C22_Witness ==
    \E s \in Slots, t \in Slots :
        /\ gate[s].requests = MAX_RETRIES
        /\ gate[s].exhausted
        /\ run[s].outcome # "none"
        /\ gate[t].requests = MAX_RETRIES - 1
        /\ gate[t].pc = "returned"
        /\ ~gate[t].exhausted
        /\ run[t].outcome # "none"

\* C23: every classifier request names a model that is in the set of
\* available models (the first of FALLBACK_MODELS that is in the set); when
\* no model of FALLBACK_MODELS is in the set, no request is issued.
C23_RequestsNameAnAvailableModel ==
    \A s \in Slots :
        gate[s].requests > 0 =>
            /\ gate[s].model \in availableModels
            /\ \E k \in 1..Len(FALLBACK_MODELS) :
                /\ gate[s].model = FALLBACK_MODELS[k]
                /\ \A j \in 1..(k - 1) : FALLBACK_MODELS[j] \notin availableModels

\* a save of the snapshot the session has after the step is started in the
\* step
SaveStarted ==
    \E k \in (Len(writes) + 1)..Len(writes') :
        /\ writes'[k].path = CHECKPOINT_PATH
        /\ writes'[k].value = getCheckpoint(connectionInfo', commands')

\* the checkpoint file does not hold the snapshot of the session
Unsaved ==
    ~(/\ checkpointLoads(files[CHECKPOINT_PATH])
      /\ parse(files[CHECKPOINT_PATH].data) = getCheckpoint(connectionInfo, commands))

\* C24: a connection becoming ready, the completion of a command and the
\* shutdown signal each start a save of the current snapshot, whatever the
\* connection status is; here for a signal that finds a snapshot the file
\* does not hold.
C24_EveryTriggerSaves ==
    [][/\ (~isConnected /\ isConnected') => SaveStarted
       /\ \A s \in Slots :
            (process.alive /\ run[s].pc = "stream" /\ run'[s].pc = "done")
                => SaveStarted
       /\ (Sigint(SpecWrites) /\ Unsaved /\ commands # <<>>) => SaveStarted]_vars

\* the checkpoint the file holds
Loaded(file) == parse(file.data)

IsPrefix(p, q) == Len(p) <= Len(q) /\ SubSeq(q, 1, Len(p)) = p

\* C25: when the process ends, at any point, a checkpoint file that loads
\* holds a command list that is a prefix of the commands the process
\* dispatched; the file is not touched while no process runs; the process
\* started on a file that loads has the file's connection info and command
\* list as its session and is not connected; and until a connection has
\* become ready in it, run-safe-command answers that there is no
\* connection.
C25_RestartRestoresTheFile ==
    [][/\ (process.alive /\ ~process'.alive
                /\ checkpointLoads(files'[CHECKPOINT_PATH])) =>
            IsPrefix(texts(Loaded(files'[CHECKPOINT_PATH]).commands), dispatched)
       /\ ~process.alive => files' = files
       /\ (~process.alive /\ process'.alive
                /\ checkpointLoads(files[CHECKPOINT_PATH])) =>
            /\ connectionInfo' = Loaded(files[CHECKPOINT_PATH]).connectionInfo
            /\ commands' = Loaded(files[CHECKPOINT_PATH]).commands
            /\ ~isConnected'
       /\ \A s \in Slots :
            (process.alive /\ ~process.established
                /\ run[s].pc = "idle" /\ run'[s].pc # "idle") =>
                /\ run'[s].outcome = "no_connection"
                /\ commands' = commands]_vars

\* the second life of the process, started on the checkpoint of a first
\* life in which a command was executed: the history is restored and an
\* invocation of run-safe-command has been answered with no connection
C25_Witness ==
    \E s \in Slots, t \in Slots :
        /\ process.alive
        /\ process.lives = MaxLives
        /\ process.restored
        /\ ~process.established
        /\ connectionInfo # <<>>
        /\ commands # <<>>
        /\ commands = Loaded(files[CHECKPOINT_PATH]).commands
        /\ s < t
        /\ run[s].execd
        /\ run[t].outcome = "no_connection"

\* C26: once new-ssh-connection has reported a failure to its caller (an
\* error of the connection or the timeout), the connected flag is false
\* until a later invocation of new-ssh-connection succeeds.
C26_FailureLeavesUnconnected ==
    \A i \in ConnectIds :
        (/\ process.alive
         /\ connects[i].outcome \in {"failed", "timeout"}
         /\ \A j \in ConnectIds : j > i => connects[j].outcome # "established")
            => ~isConnected

\* a step in which the client emits 'ready'
BecomesReady == process.alive /\ conn.state = "connecting" /\ conn'.state = "ready"

\* C27: a connection that becomes ready starts exactly one save of the
\* checkpoint, holding the connection info of the latest invocation of
\* new-ssh-connection, the one whose connection was made, also when
\* new-ssh-connection has been invoked several times on the shared client.
C27_ReadySavesOnce ==
    [][BecomesReady =>
        /\ connectionInfo' = infoOf(conn.listeners[Len(conn.listeners)])
        /\ Len(writes') = Len(writes) + 1
        /\ writes'[Len(writes')].path = CHECKPOINT_PATH
        /\ writes'[Len(writes')].value = getCheckpoint(connectionInfo', commands')]_vars

\* no save of the checkpoint is in flight
SavesFinished == \A k \in 1..Len(writes) : writes[k].path # CHECKPOINT_PATH

\* every record of the history has its result: the session has not changed
\* since the last save of the checkpoint was started, by the 'close'
\* listener that attached the latest result or by the 'ready' listener
SettledSession ==
    /\ process.alive
    /\ process.established
    /\ \A k \in 1..Len(commands) : commands[k].result # <<>>

\* C28: once every save of the checkpoint that was started has finished,
\* the session not having changed since the last one was started, the file
\* holds the snapshot of the session: a save started earlier, with an
\* older snapshot, does not overwrite what a save started later wrote.
C28_LastSaveWins ==
    (SettledSession /\ SavesFinished) =>
        /\ checkpointLoads(files[CHECKPOINT_PATH])
        /\ Loaded(files[CHECKPOINT_PATH]) = getCheckpoint(connectionInfo, commands)

====
